---------------------------- MODULE Spec2Model ----------------------------
(***************************************************************************)
(* A model of the three programs of the repository:                        *)
(*   - inspect_db.py, the Database Inspector (SpecInspect);                *)
(*   - verify_db.py, the Verification Script (SpecVerify);                 *)
(*   - main.py, the API Service's validated routes (SpecApi).              *)
(* The three programs share no state; each has its own specification.     *)
(***************************************************************************)
EXTENDS Integers, Sequences, FiniteSets, TLC

\* ------------------------------------------------------------------ bounds
MaxTables == 2      \* tables in the inspected database
MaxRows == 2        \* rows per table
MaxId == 1          \* ids the items service may assign: 0..MaxId
MaxLen == 3         \* characters of a query parameter's value
MaxHalves == 3      \* largest price of a request body, in halves

VARIABLES
    \* --- inspect_db.py
    ipc,        \* position of the inspector script
    fs,         \* the file db.db: [exists, tables]
    fs0,        \* the file db.db as it was before the run (history)
    conn,       \* the name conn: "unbound", "open" or "closed"
    tables,     \* the rows fetched from sqlite_master
    idx,        \* position of the for loop over tables
    iout,       \* lines the inspector has printed
    ierr,       \* the step at which a sqlite3.Error was raised, or "none"
    iexc,       \* exception that left the script uncaught, or "none"
    \* --- verify_db.py
    vpc,        \* position of the verification script
    item_id,    \* the value test_create_item returned
    reqs,       \* the requests issued so far, each with the kind of its outcome
    createResp, \* what the server answered to CREATE (history)
    lastResp,   \* what urlopen met in the last call of make_request
    result,     \* what the last call of make_request returned, raised and printed
    stdout,     \* the formats of the lines the script has printed
    vexc,       \* exception that left the script uncaught, or "none"
    \* --- main.py
    apc,        \* "received" before, "responded" after the request is served
    request,    \* the HTTP request
    response    \* the HTTP response

ivars == <<ipc, fs, fs0, conn, tables, idx, iout, ierr, iexc>>
vvars == <<vpc, item_id, reqs, createResp, lastResp, result, stdout, vexc>>
avars == <<apc, request, response>>
vars == <<ivars, vvars, avars>>

\* ======================================================================
\*                           inspect_db.py
\* ======================================================================

TableNames == {"items", "users", "logs"}

\* A table of the database file: its name and its number of rows.
Table == [name : TableNames, nrows : 0..MaxRows]

RECURSIVE SeqsUpTo(_, _)
SeqsUpTo(S, n) ==
    IF n = 0 THEN {<<>>}
    ELSE LET shorter == SeqsUpTo(S, n - 1)
         IN  shorter \cup {Append(s, x) : s \in {t \in shorter : Len(t) = n - 1}, x \in S}

DistinctNames(ts) == \A i, j \in 1..Len(ts) : i # j => ts[i].name # ts[j].name

\* The states db.db can be in before the run: absent, or a database whose
\* catalog lists distinctly named tables.
Absent == [exists |-> FALSE, tables |-> <<>>]
FileStates ==
    {Absent} \cup
    {[exists |-> TRUE, tables |-> ts] : ts \in {s \in SeqsUpTo(Table, MaxTables) : DistinctNames(s)}}

\* Printed lines.
Line(k, t, r) == [k |-> k, t |-> t, r |-> r]
Banner(t) == Line("--- Table: ---", t, 0)
EmptyLine == Line("(Empty)", "", 0)
HeaderLine(t) == Line("header", t, 0)
RuleLine(t) == Line("-----", t, 0)
RowLine(t, r) == Line("row", t, r)
NoTablesLine == Line("No tables found in database.", "", 0)
ErrorLine == Line("An error occurred:", "", 0)

\* print_table after a SELECT that returned nrows rows: what it prints.
PrintTableNoReturn(t, nrows) ==
    <<Banner(t)>> \o (IF nrows = 0 THEN <<EmptyLine>> ELSE <<>>)
        \o <<HeaderLine(t), RuleLine(t)>> \o [r \in 1..nrows |-> RowLine(t, r)]

print_table(t, nrows) ==
    IF nrows = 0
    THEN <<Banner(t), EmptyLine>>
    ELSE <<Banner(t), HeaderLine(t), RuleLine(t)>> \o [r \in 1..nrows |-> RowLine(t, r)]

\* sqlite3.connect('db.db') on success: the default open mode creates the
\* file, as an empty database, when it does not exist.
ConnectFile(f) == IF f.exists THEN f ELSE [exists |-> TRUE, tables |-> <<>>]

\* SELECT name FROM sqlite_master WHERE type='table'
CatalogNames(f) == [i \in 1..Len(f.tables) |-> f.tables[i].name]

\* The inspector when another program is the one running.
IdleI ==
    /\ ipc = "off"
    /\ fs0 = Absent
    /\ fs = Absent
    /\ conn = "unbound"
    /\ tables = <<>>
    /\ idx = 0
    /\ iout = <<>>
    /\ ierr = "none"
    /\ iexc = "none"

RunI ==
    /\ ipc = "connect"
    /\ fs0 \in FileStates
    /\ fs = fs0
    /\ conn = "unbound"
    /\ tables = <<>>
    /\ idx = 0
    /\ iout = <<>>
    /\ ierr = "none"
    /\ iexc = "none"

\* lines 22-23: conn = sqlite3.connect('db.db'); cursor = conn.cursor()
ConnectOk ==
    /\ ipc = "connect"
    /\ conn' = "open"
    /\ fs' = ConnectFile(fs)
    /\ ipc' = "catalog"
    /\ UNCHANGED <<fs0, tables, idx, iout, ierr, iexc>>
    /\ UNCHANGED <<vvars, avars>>

\* line 22 raising sqlite3.Error (unable to open database file): conn is
\* never assigned.
ConnectError ==
    /\ ipc = "connect"
    /\ ierr' = "connect"
    /\ ipc' = "except"
    /\ UNCHANGED <<fs, fs0, conn, tables, idx, iout, iexc>>
    /\ UNCHANGED <<vvars, avars>>

\* lines 26-33 up to the loop: the catalog query and the branch on its result.
CatalogOk ==
    /\ ipc = "catalog"
    /\ tables' = CatalogNames(fs)
    /\ IF tables' = <<>>
       THEN /\ iout' = Append(iout, NoTablesLine)
            /\ ipc' = "finally"
            /\ idx' = idx
       ELSE /\ iout' = iout
            /\ ipc' = "loop"
            /\ idx' = 1
    /\ UNCHANGED <<fs, fs0, conn, ierr, iexc>>
    /\ UNCHANGED <<vvars, avars>>

\* line 26 raising sqlite3.Error (file is not a database, database is locked)
CatalogError ==
    /\ ipc = "catalog"
    /\ ierr' = "catalog"
    /\ ipc' = "except"
    /\ UNCHANGED <<fs, fs0, conn, tables, idx, iout, iexc>>
    /\ UNCHANGED <<vvars, avars>>

\* line 33: print_table(cursor, table[0]) for the table at idx, the SELECT
\* succeeding.
PrintTableOk ==
    /\ ipc = "loop"
    /\ iout' = iout \o print_table(tables[idx], fs.tables[idx].nrows)
    /\ IF idx = Len(tables)
       THEN ipc' = "finally" /\ idx' = idx + 1
       ELSE ipc' = "loop" /\ idx' = idx + 1
    /\ UNCHANGED <<fs, fs0, conn, tables, ierr, iexc>>
    /\ UNCHANGED <<vvars, avars>>

\* line 33 with the SELECT of line 5 raising sqlite3.Error: the banner of
\* line 4 is already printed.
PrintTableError ==
    /\ ipc = "loop"
    /\ iout' = Append(iout, Banner(tables[idx]))
    /\ ierr' = "table"
    /\ ipc' = "except"
    /\ UNCHANGED <<fs, fs0, conn, tables, idx, iexc>>
    /\ UNCHANGED <<vvars, avars>>

\* lines 35-36: except sqlite3.Error as e: print(...)
Except ==
    /\ ipc = "except"
    /\ iout' = Append(iout, ErrorLine)
    /\ ipc' = "finally"
    /\ UNCHANGED <<fs, fs0, conn, tables, idx, ierr, iexc>>
    /\ UNCHANGED <<vvars, avars>>

\* lines 37-39: finally: if conn: conn.close().  Reading the unbound name
\* conn raises NameError; a Connection object is always true.
Finally ==
    /\ ipc = "finally"
    /\ IF conn = "unbound"
       THEN /\ iexc' = "NameError"
            /\ ipc' = "crash"
            /\ conn' = conn
       ELSE /\ conn' = "closed"
            /\ ipc' = "exit"
            /\ iexc' = iexc
    /\ UNCHANGED <<fs, fs0, tables, idx, iout, ierr>>
    /\ UNCHANGED <<vvars, avars>>

ITerminal == ipc \in {"exit", "crash"}


\* ======================================================================
\*                            verify_db.py
\* ======================================================================

\* Python values the script handles.  A status or an id is None or an int; a
\* decoded body is None, a dict (with or without the key "id"), a list or a str.
PyNone == [t |-> "None", n |-> 0]
PyInt(n) == [t |-> "int", n |-> n]
NoData == [t |-> "None", len |-> 0, hasId |-> FALSE, id |-> PyNone]
Dict(len, hasId, id) == [t |-> "dict", len |-> len, hasId |-> hasId, id |-> id]
List(len) == [t |-> "list", len |-> len, hasId |-> FALSE, id |-> PyNone]
Str(len) == [t |-> "str", len |-> len, hasId |-> FALSE, id |-> PyNone]

\* Python truth of a value: None, 0 and empty containers and strings are false.
Truthy(v) ==
    CASE v.t = "None" -> FALSE
      [] v.t = "int" -> v.n # 0
      [] OTHER -> v.len > 0

\* Texts a response body may decode to: a JSON object carrying an id, a JSON
\* object without one, a JSON array, text that is not JSON, and no text at all.
Texts ==
    {[kind |-> "object", hasId |-> TRUE, id |-> i, len |-> 9] : i \in 0..MaxId}
    \cup {[kind |-> "object", hasId |-> FALSE, id |-> 0, len |-> 21],
          [kind |-> "array", hasId |-> FALSE, id |-> 0, len |-> 3],
          [kind |-> "notjson", hasId |-> FALSE, id |-> 0, len |-> 2],
          [kind |-> "notjson", hasId |-> FALSE, id |-> 0, len |-> 0]}

\* The bytes of a response body: UTF-8 for one of the texts, or bytes that
\* are not UTF-8.
NotUtf8 == [utf8 |-> FALSE, text |-> [kind |-> "notjson", hasId |-> FALSE, id |-> 0, len |-> 1]]
Bytes == {[utf8 |-> TRUE, text |-> t] : t \in Texts} \cup {NotUtf8}
NoBytes == [utf8 |-> TRUE, text |-> [kind |-> "notjson", hasId |-> FALSE, id |-> 0, len |-> 0]]

\* What urllib.request.urlopen can meet: a response, urllib.error.HTTPError
\* for an error status, or urllib.error.URLError when no response arrives.
OkStatuses == {200, 201}
ErrorStatuses == {404, 500}
Responses ==
    [kind : {"ok"}, status : OkStatuses, body : Bytes]
    \cup [kind : {"HTTPError"}, status : ErrorStatuses, body : Bytes]
    \cup [kind : {"URLError"}, status : {0}, body : {NoBytes}]
NoResponse == [kind |-> "none", status |-> 0, body |-> NoBytes]

\* bytes.decode("utf-8"): the text, or UnicodeDecodeError.
DecodeRaises(b) == ~b.utf8
decode(b) == b.text

\* json.loads(text): the value, or json.JSONDecodeError.
JsonRaises(text) == text.kind = "notjson"
json_loads(text) ==
    CASE text.kind = "object" ->
            Dict(IF text.hasId THEN 1 ELSE 2, text.hasId,
                 IF text.hasId THEN PyInt(text.id) ELSE PyNone)
      [] text.kind = "array" -> List(1)

\* Lines make_request prints.
VLine(k, status, text) == [k |-> k, status |-> status, text |-> text]
Return(status, data, printed) ==
    [raised |-> "none", status |-> status, data |-> data, printed |-> printed]
Raise(exc, printed) ==
    [raised |-> exc, status |-> PyNone, data |-> NoData, printed |-> printed]
NoResult == Return(PyNone, NoData, <<>>)

\* lines 18-36 of make_request, given what urlopen met.
make_request(resp) ==
    CASE resp.kind = "ok" ->
            IF DecodeRaises(resp.body)
            THEN Raise("UnicodeDecodeError", <<>>)
            ELSE LET response_data == decode(resp.body)
                     json_data == IF JsonRaises(response_data)
                                  THEN Str(response_data.len)
                                  ELSE json_loads(response_data)
                 IN  Return(PyInt(resp.status), json_data,
                            <<VLine("Status:", resp.status, NoBytes.text),
                              VLine("Response:", 0, response_data)>>)
      [] resp.kind = "HTTPError" ->
            IF DecodeRaises(resp.body)
            THEN Raise("UnicodeDecodeError", <<VLine("Status:", resp.status, NoBytes.text)>>)
            ELSE Return(PyInt(resp.status), NoData,
                        <<VLine("Status:", resp.status, NoBytes.text),
                          VLine("Response:", 0, decode(resp.body))>>)
      [] resp.kind = "URLError" ->
            Return(PyNone, NoData, <<VLine("Error:", 0, NoBytes.text)>>)

\* lines 42-44 of test_create_item, given what make_request returned:
\* data.get exists on a dict only.
test_create_item(res) ==
    IF res.status = PyInt(200) /\ Truthy(res.data)
    THEN IF res.data.t = "dict"
         THEN [raised |-> "none", value |-> res.data.id]
         ELSE [raised |-> "AttributeError", value |-> PyNone]
    ELSE [raised |-> "none", value |-> PyNone]

\* line 74: if item_id:
HasItemIdAlways(v) == TRUE

HasItemId(v) == Truthy(v)

\* The requests of the script.
Payload(hasName, name, quantity) ==
    [present |-> TRUE, hasName |-> hasName, name |-> name, quantity |-> quantity]
NoPayload == [present |-> FALSE, hasName |-> FALSE, name |-> "", quantity |-> 0]
Request(method, endpoint, id, data, outcome) ==
    [method |-> method, endpoint |-> endpoint, id |-> id, data |-> data,
     outcome |-> outcome]

\* The formats of the lines one call prints.
Formats(printed) == [i \in 1..Len(printed) |-> printed[i].k]

\* The script when another program is the one running.
IdleV ==
    /\ vpc = "off"
    /\ item_id = PyNone
    /\ reqs = <<>>
    /\ createResp = NoResponse
    /\ lastResp = NoResponse
    /\ result = NoResult
    /\ stdout = <<>>
    /\ vexc = "none"

RunV ==
    /\ vpc = "create"
    /\ item_id = PyNone
    /\ reqs = <<>>
    /\ createResp = NoResponse
    /\ lastResp = NoResponse
    /\ result = NoResult
    /\ stdout = <<>>
    /\ vexc = "none"

\* One call of make_request from the test function whose banner is `banner`:
\* the request is issued, the server's answer is handled, and an exception of
\* make_request leaves the script.
Call(banner, method, endpoint, id, data, resp, next) ==
    LET res == make_request(resp)
    IN  /\ reqs' = Append(reqs, Request(method, endpoint, id, data, resp.kind))
        /\ lastResp' = resp
        /\ result' = res
        /\ stdout' = stdout \o <<banner>> \o Formats(res.printed)
        /\ IF res.raised # "none"
           THEN vexc' = res.raised /\ vpc' = "crash"
           ELSE vexc' = vexc /\ vpc' = next
        /\ UNCHANGED <<item_id, createResp>>
        /\ UNCHANGED <<ivars, avars>>

\* lines 70-74 and 81-82 with test_create_item (lines 38-44)
TestCreateItem ==
    /\ vpc = "create"
    /\ \E resp \in Responses :
         LET res == make_request(resp)
             got == test_create_item(res)
             exc == IF res.raised # "none" THEN res.raised ELSE got.raised
         IN  /\ reqs' = Append(reqs, Request("POST", "/items", PyNone,
                                          Payload(TRUE, "Test Item", 10), resp.kind))
             /\ createResp' = resp
             /\ lastResp' = resp
             /\ result' = res
             /\ vexc' = exc
             /\ item_id' = IF exc = "none" THEN got.value ELSE item_id
             /\ vpc' = IF exc # "none" THEN "crash"
                       ELSE IF HasItemId(got.value) THEN "read_items"
                       ELSE "done"
             /\ stdout' = stdout
                     \o <<"Starting verification...", "Testing CREATE item...">>
                     \o Formats(res.printed)
                     \o (IF exc = "none" /\ ~HasItemId(got.value)
                         THEN <<"Failed to create item, skipping other tests.">>
                         ELSE <<>>)
    /\ UNCHANGED <<ivars, avars>>

\* line 75: test_read_items() (lines 46-48)
TestReadItems ==
    /\ vpc = "read_items"
    /\ \E resp \in Responses :
         Call("Testing READ ALL items...", "GET", "/items", PyNone, NoPayload,
              resp, "read_item")

\* line 76: test_read_item(item_id) (lines 50-52)
TestReadItem ==
    /\ vpc = "read_item"
    /\ \E resp \in Responses :
         Call("Testing READ ONE item (ID: {item_id})...", "GET", "/items/{item_id}",
              item_id, NoPayload, resp, "update_item")

\* line 77: test_update_item(item_id) (lines 54-57)
TestUpdateItem ==
    /\ vpc = "update_item"
    /\ \E resp \in Responses :
         Call("Testing UPDATE item (ID: {item_id})...", "PUT", "/items/{item_id}",
              item_id, Payload(TRUE, "Updated Test Item", 20), resp, "patch_item")

\* line 78: test_patch_item(item_id) (lines 59-63)
TestPatchItem ==
    /\ vpc = "patch_item"
    /\ \E resp \in Responses :
         Call("Testing PATCH item (ID: {item_id})...", "PATCH", "/items/{item_id}",
              item_id, Payload(FALSE, "", 50), resp, "delete_item")

\* line 79: test_delete_item(item_id) (lines 65-67)
TestDeleteItem ==
    /\ vpc = "delete_item"
    /\ \E resp \in Responses :
         Call("Testing DELETE item (ID: {item_id})...", "DELETE", "/items/{item_id}",
              item_id, NoPayload, resp, "read_items_again")

\* line 80: test_read_items() again
TestReadItemsAgain ==
    /\ vpc = "read_items_again"
    /\ \E resp \in Responses :
         Call("Testing READ ALL items...", "GET", "/items", PyNone, NoPayload,
              resp, "done")

VTerminal == vpc \in {"done", "crash"}


\* ======================================================================
\*                               main.py
\* ======================================================================

\* A query parameter as it arrives: absent, or a string of characters.
Chars == {"-", "0", "1"}
NoParam == [present |-> FALSE, chars |-> <<>>]
Param(cs) == [present |-> TRUE, chars |-> cs]
IntParams ==
    {NoParam} \cup {Param(cs) : cs \in {s \in SeqsUpTo(Chars, MaxLen) : Len(s) >= 1}}
StrParams == {NoParam, Param(<<>>), Param(<<"0">>), Param(<<"-", "1">>)}

\* The conversion of a query string to int: an optional minus sign and at
\* least one digit.
Digit(c) == IF c = "1" THEN 1 ELSE 0
IsDigits(cs) == Len(cs) >= 1 /\ \A i \in 1..Len(cs) : cs[i] \in {"0", "1"}
IsInt(cs) ==
    /\ Len(cs) >= 1
    /\ IF cs[1] = "-" THEN IsDigits(Tail(cs)) ELSE IsDigits(cs)

RECURSIVE DigitsValue(_)
DigitsValue(cs) ==
    IF cs = <<>> THEN 0
    ELSE 10 * DigitsValue(SubSeq(cs, 1, Len(cs) - 1)) + Digit(cs[Len(cs)])

ParseInt(cs) == IF cs[1] = "-" THEN 0 - DigitsValue(Tail(cs)) ELSE DigitsValue(cs)

\* The body of GET /body-parameter-example/item: the JSON object under the
\* key "item", if any, with the fields it carries.  A price is a number,
\* counted in halves.
Names == {"Foo", "Bar"}
Brands == {"BarBrand"}
NoItem ==
    [present |-> FALSE, hasName |-> FALSE, name |-> "", hasPrice |-> FALSE,
     halves |-> 0, hasBrand |-> FALSE, brand |-> ""]
Items ==
    {NoItem} \cup
    {[present |-> TRUE, hasName |-> hn, name |-> IF hn THEN n ELSE "",
      hasPrice |-> hp, halves |-> IF hp THEN h ELSE 0,
      hasBrand |-> hb, brand |-> IF hb THEN b ELSE ""] :
        hn \in BOOLEAN, n \in Names, hp \in BOOLEAN, h \in (0 - 2)..MaxHalves,
        hb \in BOOLEAN, b \in Brands}

QueryRequests ==
    [route : {"/query-parameter-example"}, data_type : StrParams,
     skip : IntParams, limit : IntParams, item : {NoItem}]
BodyRequests ==
    [route : {"/body-parameter-example/item"}, data_type : {NoParam},
     skip : {NoParam}, limit : {NoParam}, item : Items]

\* Responses.  A validation failure is the framework's 422 response and the
\* handler is not called.
NoEcho == [data_type |-> <<>>, skip |-> 0, limit |-> 0]
NoItemEcho == [name |-> "", halves |-> 0, brand |-> "", brandNull |-> TRUE]
ValidationError ==
    [status |-> 422, handler |-> FALSE, echo |-> NoEcho, item |-> NoItemEcho]
NoApiResponse ==
    [status |-> 0, handler |-> FALSE, echo |-> NoEcho, item |-> NoItemEcho]

\* line 101: skip: int = Query(0, ge=0)
skip_default == 0
skip_gt(n) == n > 0

skip_ge(n) == n >= 0

\* line 102: limit: int = Query(10, le=100)
limit_default == 10
limit_max == 100
limit_le(n) == n <= limit_max

\* An int query parameter: absent, it takes its default; present, it must
\* convert to int and meet its constraint.
IntParamFails(p) == p.present /\ ~IsInt(p.chars)
IntParamValue(p, default) == IF p.present THEN ParseInt(p.chars) ELSE default

\* lines 100-102: validation of the query parameters
QueryInvalid(req) ==
    \/ ~req.data_type.present
    \/ IntParamFails(req.skip)
    \/ IntParamFails(req.limit)
    \/ ~skip_ge(IntParamValue(req.skip, skip_default))
    \/ ~limit_le(IntParamValue(req.limit, limit_default))

\* lines 109-113: the handler
get_api_data(data_type, skip, limit) ==
    [status |-> 200, handler |-> TRUE,
     echo |-> [data_type |-> data_type, skip |-> skip, limit |-> limit],
     item |-> NoItemEcho]

\* line 120: price: float = Field(..., gt=0)
price_ge(h) == h >= 0

price_gt(h) == h > 0

\* lines 118-121 and 126: validation of the body against Item, embedded
\* under the key "item"
BodyInvalid(req) ==
    \/ ~req.item.present
    \/ ~req.item.hasName
    \/ ~req.item.hasPrice
    \/ ~price_gt(req.item.halves)

\* line 133: the handler; brand is None when the body gives none
create_item(item) ==
    [status |-> 200, handler |-> TRUE, echo |-> NoEcho,
     item |-> [name |-> item.name, halves |-> item.halves,
               brand |-> IF item.hasBrand THEN item.brand ELSE "",
               brandNull |-> ~item.hasBrand]]

\* The service when another program is the one running.
IdleA ==
    /\ apc = "off"
    /\ request = [route |-> "", data_type |-> NoParam, skip |-> NoParam,
                  limit |-> NoParam, item |-> NoItem]
    /\ response = NoApiResponse

RunA ==
    /\ apc = "received"
    /\ request \in QueryRequests \cup BodyRequests
    /\ response = NoApiResponse

\* GET /query-parameter-example (lines 97-113)
GetApiData ==
    /\ apc = "received"
    /\ request.route = "/query-parameter-example"
    /\ response' = IF QueryInvalid(request)
                   THEN ValidationError
                   ELSE get_api_data(request.data_type.chars,
                                     IntParamValue(request.skip, skip_default),
                                     IntParamValue(request.limit, limit_default))
    /\ apc' = "responded"
    /\ UNCHANGED request
    /\ UNCHANGED <<ivars, vvars>>

\* GET /body-parameter-example/item (lines 123-133)
CreateItem ==
    /\ apc = "received"
    /\ request.route = "/body-parameter-example/item"
    /\ response' = IF BodyInvalid(request)
                   THEN ValidationError
                   ELSE create_item(request.item)
    /\ apc' = "responded"
    /\ UNCHANGED request
    /\ UNCHANGED <<ivars, vvars>>

\* ======================================================================
\*                           specifications
\* ======================================================================

InitI == RunI /\ IdleV /\ IdleA
NextI ==
    \/ ConnectOk
    \/ ConnectError
    \/ CatalogOk
    \/ CatalogError
    \/ PrintTableOk
    \/ PrintTableError
    \/ Except
    \/ Finally
SpecInspect == InitI /\ [][NextI]_vars

InitV == IdleI /\ RunV /\ IdleA
NextV ==
    \/ TestCreateItem
    \/ TestReadItems
    \/ TestReadItem
    \/ TestUpdateItem
    \/ TestPatchItem
    \/ TestDeleteItem
    \/ TestReadItemsAgain
SpecVerify == InitV /\ [][NextV]_vars

InitA == IdleI /\ IdleV /\ RunA
NextA ==
    \/ GetApiData
    \/ CreateItem
SpecApi == InitA /\ [][NextA]_vars

\* ---------------------------------------------------------- claims, inspector

\* The table at position i of the catalog has been printed by print_table
\* (its SELECT returned).
Printed(i) == ipc \in {"loop", "except", "finally", "exit", "crash"} /\ i < idx

\* C3: in every terminal state of the inspector, after a normal run or after
\* an error while opening or querying, no connection is left open and the
\* release step has not raised.
C3_ReleasedOnEveryExit ==
    ITerminal => (conn # "open" /\ iexc = "none")

\* C4: whenever a database-engine error was raised at the connect step, the
\* catalog query or a per-table query, the run ends with the line
\* "An error occurred: ..." printed and no exception leaving the script.
C4_EngineErrorsCaught ==
    (ITerminal /\ ierr # "none") =>
        /\ ipc = "exit"
        /\ iexc = "none"
        /\ \E p \in 1..Len(iout) : iout[p] = ErrorLine

\* C9: (a) a run over a database with zero tables whose catalog query
\* returned ends cleanly having printed exactly the one line "No tables found
\* in database."; (b) every printed table with zero rows has its banner
\* immediately followed by "(Empty)", has no header, rule or row line, and is
\* followed by the banner of the next table of the catalog, which is printed
\* by the end of the run whenever there is a next table.
C9_EmptyCases ==
    /\ (ITerminal /\ ierr = "none" /\ fs.tables = <<>>) =>
          (iout = <<NoTablesLine>> /\ ipc = "exit" /\ iexc = "none")
    /\ \A p \in 1..Len(iout) : iout[p] = NoTablesLine => fs.tables = <<>>
    /\ \A i \in 1..Len(tables) :
          (Printed(i) /\ fs.tables[i].nrows = 0) =>
             \E p \in 1..Len(iout) :
                /\ iout[p] = Banner(tables[i])
                /\ p + 1 <= Len(iout) /\ iout[p + 1] = EmptyLine
                /\ \A q \in 1..Len(iout) : iout[q].t = tables[i] => q = p
                /\ p + 2 <= Len(iout) =>
                      (i < Len(tables) /\ iout[p + 2] = Banner(tables[i + 1]))
                /\ (ITerminal /\ i < Len(tables)) => p + 2 <= Len(iout)

\* C9 witness: a finished run that printed an empty table and then went on
\* to print the next, non-empty one.
C9_Witness ==
    /\ ipc = "exit"
    /\ ierr = "none"
    /\ Len(tables) >= 2
    /\ fs.tables[1].nrows = 0
    /\ fs.tables[2].nrows > 0
    /\ iout[2] = EmptyLine
    /\ iout[3] = Banner(tables[2])

\* C10: the file db.db is, at every point of every run, what it was before
\* the run: not created, and with the same tables and rows.
C10_OnlyReads == fs = fs0

\* ------------------------------------------------- claims, verification script

\* CREATE returned status 200 and a body that is a JSON object with an id.
CreateReturnedId ==
    /\ createResp.kind = "ok"
    /\ createResp.status = 200
    /\ createResp.body.utf8
    /\ createResp.body.text.kind = "object"
    /\ createResp.body.text.hasId

ReturnedId == PyInt(createResp.body.text.id)

\* The method, endpoint and id of the requests issued after CREATE.
Target(r) == <<r.method, r.endpoint, r.id>>
AfterCreate == [k \in 1..(Len(reqs) - 1) |-> Target(reqs[k + 1])]

\* C1: a run in which CREATE returned success and a body containing an id
\* ends having issued, after CREATE, exactly READ-ALL, READ-ONE, UPDATE,
\* PATCH, DELETE and READ-ALL, in this order, the four per-item requests
\* carrying the id CREATE returned.
C1_FullSequenceAfterCreate ==
    (VTerminal /\ CreateReturnedId) =>
        AfterCreate = << <<"GET", "/items", PyNone>>,
                         <<"GET", "/items/{item_id}", ReturnedId>>,
                         <<"PUT", "/items/{item_id}", ReturnedId>>,
                         <<"PATCH", "/items/{item_id}", ReturnedId>>,
                         <<"DELETE", "/items/{item_id}", ReturnedId>>,
                         <<"GET", "/items", PyNone>> >>

\* C2: a run in which CREATE did not yield an id (no response, an error
\* status, a status other than 200, or a body carrying no id) ends having
\* issued no request after CREATE, with the failure notice printed and no
\* exception leaving the script.  Stated for the runs in which the body of
\* CREATE's response is UTF-8 text, where it already fails.
C2_CreateFailureSkipsCleanly ==
    (VTerminal /\ ~CreateReturnedId /\ createResp.body.utf8) =>
        /\ Len(reqs) = 1
        /\ stdout[Len(stdout)] = "Failed to create item, skipping other tests."
        /\ vexc = "none"

\* A call failed: no response arrived, or the response had an error status.
Failed(r) == r.outcome \in {"URLError", "HTTPError"}

\* C5 as stated: no call is issued after a failed call of the sequence.
C5_AnyFailureTruncates ==
    \A i \in 1..Len(reqs) : Failed(reqs[i]) => Len(reqs) = i

\* C5, amended: no call is issued after a failed CREATE.
C5_CreateFailureTruncates ==
    (Len(reqs) >= 1 /\ Failed(reqs[1])) => (Len(reqs) = 1 /\ vpc \in {"done", "crash"})

\* C5 witness: the run ended after a CREATE that met an error status.
C5_Witness ==
    /\ vpc = "done"
    /\ Len(reqs) = 1
    /\ reqs[1].outcome = "HTTPError"

\* C6: every call of make_request returns: (None, None) with only the reason
\* printed when no response arrived; the status and no body, with the status
\* and the error body printed, for an error status; the status and the body,
\* decoded from JSON when it parses and as raw text otherwise, for a
\* response.  No call raises.
C6_MakeRequestResults ==
    Len(reqs) >= 1 =>
        /\ result.raised = "none"
        /\ lastResp.kind = "URLError" =>
              /\ result.status = PyNone /\ result.data = NoData
              /\ Formats(result.printed) = <<"Error:">>
        /\ lastResp.kind = "HTTPError" =>
              /\ result.status = PyInt(lastResp.status) /\ result.data = NoData
              /\ result.printed = <<VLine("Status:", lastResp.status, NoBytes.text),
                                    VLine("Response:", 0, lastResp.body.text)>>
        /\ lastResp.kind = "ok" =>
              /\ result.status = PyInt(lastResp.status)
              /\ result.data = IF lastResp.body.text.kind = "notjson"
                               THEN Str(lastResp.body.text.len)
                               ELSE json_loads(lastResp.body.text)

\* ------------------------------------------------------- claims, API service

Responded(route) == apc = "responded" /\ request.route = route
ClientError == response.status \in 400..499 /\ ~response.handler

\* C7: GET /query-parameter-example answers 4xx, never 200, when data_type
\* is missing, skip is an integer below 0 or limit is an integer above 100;
\* and answers 200, echoing data_type, skip (default 0) and limit (default
\* 10), when data_type is present, skip is absent or an integer >= 0 and
\* limit is absent or an integer <= 100.
C7_QueryValidation ==
    Responded("/query-parameter-example") =>
        LET skipInt == request.skip.present /\ IsInt(request.skip.chars)
            limitInt == request.limit.present /\ IsInt(request.limit.chars)
            skipVal == ParseInt(request.skip.chars)
            limitVal == ParseInt(request.limit.chars)
        IN  /\ ( \/ ~request.data_type.present
                 \/ (skipInt /\ skipVal < 0)
                 \/ (limitInt /\ limitVal > 100) ) => ClientError
            /\ ( /\ request.data_type.present
                 /\ (~request.skip.present \/ (skipInt /\ skipVal >= 0))
                 /\ (~request.limit.present \/ (limitInt /\ limitVal <= 100)) ) =>
                   /\ response.status = 200
                   /\ response.echo.data_type = request.data_type.chars
                   /\ response.echo.skip = IF request.skip.present THEN skipVal ELSE 0
                   /\ response.echo.limit = IF request.limit.present THEN limitVal ELSE 10

\* C7 witness: a request with skip=0 and limit=100, the two limits, answered
\* 200.
C7_Witness ==
    /\ Responded("/query-parameter-example")
    /\ request.data_type.present
    /\ request.skip = Param(<<"0">>)
    /\ request.limit = Param(<<"1", "0", "0">>)
    /\ response.status = 200
    /\ response.echo.limit = 100

\* C8: GET /body-parameter-example/item answers 4xx, the handler not run,
\* when the item lacks name, lacks price or has a price <= 0; and answers 200
\* with the item echoed, brand null when absent, when the item has a name
\* and a price > 0.
C8_BodyValidation ==
    Responded("/body-parameter-example/item") =>
        /\ ( /\ request.item.present
             /\ \/ ~request.item.hasName
                \/ ~request.item.hasPrice
                \/ request.item.halves <= 0 ) => ClientError
        /\ ( /\ request.item.present
             /\ request.item.hasName
             /\ request.item.hasPrice
             /\ request.item.halves > 0 ) =>
               /\ response.status = 200
               /\ response.handler
               /\ response.item.name = request.item.name
               /\ response.item.halves = request.item.halves
               /\ response.item.brandNull = ~request.item.hasBrand
               /\ request.item.hasBrand => response.item.brand = request.item.brand

\* C8 witness: an item with a name, the smallest positive price and no
\* brand, echoed with brand null.
C8_Witness ==
    /\ Responded("/body-parameter-example/item")
    /\ request.item.present
    /\ request.item.hasName
    /\ request.item.hasPrice
    /\ request.item.halves = 1
    /\ ~request.item.hasBrand
    /\ response.status = 200
    /\ response.item.brandNull

=============================================================================
